---- MODULE Spec2Model ----
(***************************************************************************)
(* Day1_Notebook_NLP.ipynb: a sentiment pipeline run in a notebook kernel. *)
(* TfidfVectorizer(stop_words='english') -> train_test_split ->            *)
(* MultinomialNB -> predict.  The state is the kernel's namespace; there   *)
(* is one action per code cell.  A cell raises at its first failing        *)
(* statement and keeps the bindings made before it.                        *)
(*                                                                         *)
(* Real numbers are fixed-point, in thousandths (1.0 is 1000).  A document *)
(* is the sequence of its whitespace-separated words.                      *)
(***************************************************************************)
EXTENDS Integers, Sequences, FiniteSets, TLC

VARIABLES
  lit,            \* the literals of the cells: data, test_size, random_state
  ns,             \* names bound in the kernel namespace
  data, df,       \* cell 2, cell 3
  vectorizer,     \* cell 5: the TfidfVectorizer object
  X, y,           \* cell 5
  X_train, X_test, y_train, y_test,   \* cell 6
  model,          \* cell 7: the MultinomialNB object
  y_pred,         \* cell 8
  new_texts, new_X, y_new_pred,       \* cell 9
  stdout,         \* cell 10: the labels printed
  error,          \* outcome of the last cell run
  split_log       \* history: the first and the latest result a split returned

vars == <<lit, ns, data, df, vectorizer, X, y, X_train, X_test, y_train,
          y_test, model, y_pred, new_texts, new_X, y_new_pred, stdout,
          error, split_log>>

-----------------------------------------------------------------------------
(* Bounds of the exploration *)

\* longest synthetic dataset
MaxDocs == 3

-----------------------------------------------------------------------------
(* Fixed-point arithmetic *)

Milli(x) == x * 1000

RECURSIVE SumSeq(_)
SumSeq(s) == IF s = <<>> THEN 0 ELSE Head(s) + SumSeq(Tail(s))

\* f[lo] + ... + f[hi]
RECURSIVE SumFn(_, _, _)
SumFn(f, lo, hi) == IF lo > hi THEN 0 ELSE f[lo] + SumFn(f, lo + 1, hi)

RECURSIVE SqrtBisect(_, _, _)
SqrtBisect(n, lo, hi) ==
  IF hi - lo <= 1 THEN lo
  ELSE LET mid == (lo + hi) \div 2
       IN IF mid * mid <= n THEN SqrtBisect(n, mid, hi)
                            ELSE SqrtBisect(n, lo, mid)

\* floor of the square root (numpy.sqrt in the l2 normalisation)
Sqrt(n) == SqrtBisect(n, 0, 46341)

\* ln of m = p/q for q <= p < 2q, in 1/10000: 2 atanh((m-1)/(m+1)), four terms
LnMantissa(p, q) ==
  LET z  == ((p - q) * 10000) \div (p + q)
      z2 == (z * z) \div 10000
      z3 == (z * z2) \div 10000
      z5 == (z3 * z2) \div 10000
      z7 == (z5 * z2) \div 10000
  IN 2 * (z + z3 \div 3 + z5 \div 5 + z7 \div 7)

\* ln(p/q) in 1/10000 for p >= q > 0
RECURSIVE LnUp(_, _)
LnUp(p, q) == IF p >= 2 * q THEN 6931 + LnUp(p, 2 * q) ELSE LnMantissa(p, q)

\* numpy.log of the ratio p/q (p, q > 0), in thousandths, rounded to nearest
Log(p, q) ==
  IF p >= q THEN (LnUp(p, q) + 5) \div 10
            ELSE 0 - ((LnUp(q, p) + 5) \div 10)

-----------------------------------------------------------------------------
(* The literals of the notebook *)

\* cell 2: data["Text"]
Text ==
  << <<"I", "love", "this", "product!", "It", "works", "amazingly", "well.">>,
     <<"This", "is", "the", "worst", "experience", "I", "have", "ever", "had.">>,
     <<"Absolutely", "fantastic", "service", "and", "quality.">>,
     <<"I", "hate", "the", "way", "this", "product", "feels.">>,
     <<"The", "design", "is", "beautiful,", "but", "the", "performance", "is",
       "mediocre.">>,
     <<"Excellent", "value", "for", "the", "price!">>,
     <<"Not", "worth", "the", "money.", "Terrible", "experience.">>,
     <<"I", "am", "extremely", "satisfied", "with", "my", "purchase.">>,
     <<"The", "product", "broke", "after", "one", "use.", "Very",
       "disappointing.">>,
     <<"It", "does", "what", "it", "promises.", "Decent", "overall.">> >>

\* cell 2: data["Sentiment"], 1=Positive, 0=Negative
Sentiment == <<1, 0, 1, 0, 0, 1, 0, 1, 0, 1>>

\* cell 9: the new_texts literal
NewTexts ==
  << <<"I", "am", "so", "happy", "with", "this", "purchase!">>,
     <<"This", "is", "the", "most", "terrible", "item.">>,
     <<"The", "quality", "is", "very", "good,", "and", "I", "love", "it.">>,
     <<"It's", "not", "bad,", "but", "I", "expected", "better.">> >>

\* cell 6: test_size=0.3, in tenths
TestSize == 3

\* cell 6: random_state=42
RandomState == 42

-----------------------------------------------------------------------------
(* Inputs the exploration draws beside the literals *)

\* documents of the synthetic datasets; document i is DocPool[i mod 3]
DocPool ==
  << <<"It", "is", "the">>,
     <<"I", "love", "this", "product!">>,
     <<"Terrible", "product">> >>

SyntheticText(n) == [i \in 1..n |-> DocPool[((i - 1) % Len(DocPool)) + 1]]

\* every dataset explored: the notebook's, and the synthetic ones with any labels
Datasets ==
  {[Text |-> Text, Sentiment |-> Sentiment]} \cup
  UNION {{[Text |-> SyntheticText(n), Sentiment |-> l] : l \in [1..n -> {0, 1}]}
         : n \in 1..MaxDocs}

\* test_size values explored, in tenths
TestSizes == {TestSize, 5, 9}

\* random_state values explored
RandomStates == {RandomState, 0}

\* new_texts values explored
NewTextsPool ==
  { NewTexts,
    << <<"It", "is", "the">>, <<"happy", "item.">>,
       <<"Terrible", "product", "product">> >> }

-----------------------------------------------------------------------------
(* TfidfVectorizer(stop_words='english'): the analyzer *)

\* str.lower on the words in use
Lower(w) ==
  CASE w = "I" -> "i"
    [] w = "It" -> "it"
    [] w = "It's" -> "it's"
    [] w = "This" -> "this"
    [] w = "The" -> "the"
    [] w = "Not" -> "not"
    [] w = "Very" -> "very"
    [] w = "Absolutely" -> "absolutely"
    [] w = "Excellent" -> "excellent"
    [] w = "Terrible" -> "terrible"
    [] w = "Decent" -> "decent"
    [] OTHER -> w

\* the maximal runs of word characters of a lower-cased word
WordRuns(w) ==
  CASE w = "it's" -> <<"it", "s">>
    [] w = "product!" -> <<"product">>
    [] w = "price!" -> <<"price">>
    [] w = "purchase!" -> <<"purchase">>
    [] w = "purchase." -> <<"purchase">>
    [] w = "well." -> <<"well">>
    [] w = "had." -> <<"had">>
    [] w = "quality." -> <<"quality">>
    [] w = "feels." -> <<"feels">>
    [] w = "beautiful," -> <<"beautiful">>
    [] w = "mediocre." -> <<"mediocre">>
    [] w = "money." -> <<"money">>
    [] w = "experience." -> <<"experience">>
    [] w = "use." -> <<"use">>
    [] w = "disappointing." -> <<"disappointing">>
    [] w = "promises." -> <<"promises">>
    [] w = "overall." -> <<"overall">>
    [] w = "item." -> <<"item">>
    [] w = "good," -> <<"good">>
    [] w = "it." -> <<"it">>
    [] w = "bad," -> <<"bad">>
    [] w = "better." -> <<"better">>
    [] OTHER -> <<w>>

\* the members of sklearn's ENGLISH_STOP_WORDS among the words in use
ENGLISH_STOP_WORDS ==
  {"this", "it", "well", "is", "the", "have", "ever", "had", "and", "but",
   "for", "not", "am", "with", "my", "after", "one", "very", "what", "so",
   "most"}

\* token_pattern (?u)\b\w\w+\b keeps runs of two or more characters; then
\* the stop words are dropped
KeepToken(t) == Len(t) >= 2 /\ t \notin ENGLISH_STOP_WORDS

RECURSIVE Tokens(_)
Tokens(doc) ==
  IF doc = <<>> THEN <<>>
  ELSE SelectSeq(WordRuns(Lower(Head(doc))), KeepToken) \o Tokens(Tail(doc))

\* every term the analyzer can emit here, in sorted() order
Lexicon ==
  <<"absolutely", "amazingly", "bad", "beautiful", "better", "broke",
    "decent", "design", "disappointing", "does", "excellent", "expected",
    "experience", "extremely", "fantastic", "feels", "good", "happy", "hate",
    "item", "love", "mediocre", "money", "overall", "performance", "price",
    "product", "promises", "purchase", "quality", "satisfied", "service",
    "terrible", "use", "value", "way", "works", "worst", "worth">>

\* the analyzed documents, one token sequence per document
RECURSIVE Analyze(_)
Analyze(docs) ==
  IF docs = <<>> THEN <<>> ELSE <<Tokens(Head(docs))>> \o Analyze(Tail(docs))

TermSet(toks) == {toks[i] : i \in 1..Len(toks)}

\* number of occurrences of term t in the analyzed document
TermCount(toks, t) == Cardinality({i \in 1..Len(toks) : toks[i] = t})

-----------------------------------------------------------------------------
(* TfidfVectorizer: fit and transform *)

\* the terms of a vocabulary in column order (get_feature_names_out)
FeatureNames(terms) == SelectSeq(Lexicon, LAMBDA t : t \in terms)

\* vocabulary_: term -> column, columns in sorted order of the terms
Vocabulary(docs) ==
  LET analyzed == Analyze(docs)
      terms == UNION {TermSet(analyzed[i]) : i \in 1..Len(docs)}
      names == FeatureNames(terms)
  IN [t \in terms |-> (CHOOSE j \in 1..Len(names) : names[j] = t) - 1]

\* idf_ with smooth_idf: ln((1 + n) / (1 + df)) + 1 per column
Idf(docs, vocabulary) ==
  LET n == Len(docs)
      analyzed == Analyze(docs)
      names == FeatureNames(DOMAIN vocabulary)
      DocFreq(t) == Cardinality({i \in 1..n : \E k \in 1..Len(analyzed[i]) :
                                                 analyzed[i][k] = t})
  IN [j \in 0..(Len(names) - 1) |->
        Log(1 + n, 1 + DocFreq(names[j + 1])) + Milli(1)]

\* one row: tf * idf per column, then l2-normalised unless the norm is zero;
\* terms outside the vocabulary have no column
TransformDoc(v, doc) ==
  LET toks == Tokens(doc)
      names == FeatureNames(DOMAIN v.vocabulary_)
      last == Len(names) - 1
      raw == [j \in 0..last |-> TermCount(toks, names[j + 1]) * v.idf_[j]]
      norm == Sqrt(SumFn([j \in 0..last |-> raw[j] * raw[j]], 0, last))
  IN IF norm = 0 THEN raw
     ELSE [j \in 0..last |-> (raw[j] * 1000 + norm \div 2) \div norm]

\* vectorizer.transform(raw_documents) of a fitted vectorizer
Transform(v, docs) == [i \in 1..Len(docs) |-> TransformDoc(v, docs[i])]

\* the vectorizer as constructed, not fitted
NewVectorizer == [fitted |-> FALSE, vocabulary_ |-> <<>>, idf_ |-> <<>>]

\* variant: fit leaves the vectorizer marked as not fitted
FitUnmarked(docs) ==
  LET voc == Vocabulary(docs)
  IN [fitted |-> FALSE, vocabulary_ |-> voc, idf_ |-> Idf(docs, voc)]

\* the vectorizer after fit on docs (the vocabulary is not empty)
Fit(docs) ==
  LET voc == Vocabulary(docs)
  IN [fitted |-> TRUE, vocabulary_ |-> voc, idf_ |-> Idf(docs, voc)]

-----------------------------------------------------------------------------
(* train_test_split(X, y, test_size=..., random_state=...) *)

\* The low four bits of the first outputs of numpy's MT19937 seeded with an
\* integer; the shuffle of fewer than 17 items reads no other bit.
MTLowBits(seed) ==
  CASE seed = 42 -> <<6, 3, 12, 14, 10, 7, 12, 4, 6, 9, 2, 6, 10, 10, 7, 4, 3,
                      7, 7, 2, 5, 4, 1, 7>>
    [] seed = 0 -> <<12, 15, 5, 0, 3, 11, 3, 7, 9, 3, 5, 2, 4, 7, 6, 8, 8, 12,
                     10, 1, 6, 7, 7, 14>>

\* variant: one generator shared by the calls, so a later call continues
\* from where the generator stands instead of from the seed
check_random_state_shared(seed) ==
  [stream |-> MTLowBits(seed), pos |-> 1 + Len(split_log)]

\* check_random_state(random_state): an integer seeds a fresh generator on
\* every call; the generator is the stream and the position of its next output
check_random_state(seed) == [stream |-> MTLowBits(seed), pos |-> 1]

\* the smallest 2^k - 1 that is >= max
Mask(max) == CHOOSE m \in {0, 1, 3, 7, 15} :
               m >= max /\ \A l \in {0, 1, 3, 7, 15} : l >= max => m <= l

\* random_interval(max): masked rejection sampling of a value in 0..max
RECURSIVE random_interval(_, _)
random_interval(rng, max) ==
  LET v == rng.stream[rng.pos] % (Mask(max) + 1)
      next == [rng EXCEPT !.pos = rng.pos + 1]
  IN IF v <= max THEN [value |-> v, rng |-> next]
     ELSE random_interval(next, max)

\* RandomState.shuffle: for i = n-1 down to 1, swap arr[i] and arr[j],
\* j drawn from 0..i
RECURSIVE shuffle(_, _, _)
shuffle(arr, i, rng) ==
  IF i < 1 THEN arr
  ELSE LET d == random_interval(rng, i)
           j == d.value
       IN shuffle([arr EXCEPT ![i] = arr[j], ![j] = arr[i]], i - 1, d.rng)

\* rng.permutation(n): the shuffled arange(n), as the sequence of its items
permutation(n, rng) ==
  LET arr == shuffle([i \in 0..(n - 1) |-> i], n - 1, rng)
  IN [k \in 1..n |-> arr[k - 1]]

\* ceil(test_size * n_samples), test_size in tenths
NTest(n, tenths) == (n * tenths + 9) \div 10

\* variant: the train size is not checked
SplitAcceptedAnySize(n, tenths) == tenths > 0 /\ tenths < 10

\* _validate_shuffle_split: whether the sizes are accepted
SplitAccepted(n, tenths) ==
  /\ tenths > 0 /\ tenths < 10
  /\ n - NTest(n, tenths) > 0

\* variant: the train slice starts one position early
SplitIndicesOverlap(n, tenths, seed) ==
  LET perm == permutation(n, check_random_state(seed))
      n_test == NTest(n, tenths)
  IN [train |-> SubSeq(perm, n_test, n),
      test  |-> SubSeq(perm, 1, n_test)]

\* variant: the train indices are taken from the front of the permutation
SplitIndicesTrainFirst(n, tenths, seed) ==
  LET perm == permutation(n, check_random_state(seed))
      n_test == NTest(n, tenths)
  IN [train |-> SubSeq(perm, 1, n - n_test),
      test  |-> SubSeq(perm, n - n_test + 1, n)]

\* ShuffleSplit: the test indices are the first n_test items of the
\* permutation, the train indices the n_train items after them
SplitIndices(n, tenths, seed) ==
  LET perm == permutation(n, check_random_state(seed))
      n_test == NTest(n, tenths)
  IN [train |-> SubSeq(perm, n_test + 1, n),
      test  |-> SubSeq(perm, 1, n_test)]

\* _safe_indexing of the rows of a matrix
TakeRows(M, idx) == [k \in 1..Len(idx) |-> M[idx[k] + 1]]

\* _safe_indexing of a pandas Series: the taken items keep their index labels
TakeSeries(ser, idx) ==
  [index |-> idx,
   values |-> [k \in 1..Len(idx) |->
                 ser.values[CHOOSE p \in 1..Len(ser.index) : ser.index[p] = idx[k]]]]

-----------------------------------------------------------------------------
(* MultinomialNB(): alpha=1.0, fit_prior=True *)

\* the model as constructed, not fitted
NewModel ==
  [fitted |-> FALSE, classes_ |-> <<>>, class_count_ |-> <<>>,
   feature_count_ |-> <<>>, class_log_prior_ |-> <<>>,
   feature_log_prob_ |-> <<>>]

\* np.unique(y): the distinct labels in increasing order
Classes(labels) ==
  LET S == {labels[i] : i \in 1..Len(labels)}
  IN SelectSeq(<<0, 1>>, LAMBDA c : c \in S)

\* variant: fit_prior=False, every class gets the same prior
FitClassUniformPrior(Xt, rows, n) ==
  LET last == Cardinality(DOMAIN Xt[1]) - 1
      fc == [j \in 0..last |->
               SumFn([i \in 1..Len(Xt) |-> IF i \in rows THEN Xt[i][j] ELSE 0],
                     1, Len(Xt))]
      total == SumFn(fc, 0, last) + Milli(1) * (last + 1)
  IN [class_count_ |-> Cardinality(rows),
      feature_count_ |-> fc,
      class_log_prior_ |-> 0,
      feature_log_prob_ |-> [j \in 0..last |-> Log(fc[j] + Milli(1), total)]]

\* the counts of one class: its rows of X summed per column, smoothed by
\* alpha, and the logarithm of each column's share
FitClass(Xt, rows, n) ==
  LET last == Cardinality(DOMAIN Xt[1]) - 1
      fc == [j \in 0..last |->
               SumFn([i \in 1..Len(Xt) |-> IF i \in rows THEN Xt[i][j] ELSE 0],
                     1, Len(Xt))]
      total == SumFn(fc, 0, last) + Milli(1) * (last + 1)
  IN [class_count_ |-> Cardinality(rows),
      feature_count_ |-> fc,
      class_log_prior_ |-> Log(Cardinality(rows), n),
      feature_log_prob_ |-> [j \in 0..last |-> Log(fc[j] + Milli(1), total)]]

\* model.fit(X_train, y_train); one class in y_train is accepted
FitModel(Xt, yt) ==
  LET classes == Classes(yt.values)
      n == Len(Xt)
      RECURSIVE PerClass(_)
      PerClass(k) ==
        IF k > Len(classes) THEN <<>>
        ELSE <<FitClass(Xt, {i \in 1..n : yt.values[i] = classes[k]}, n)>>
               \o PerClass(k + 1)
      per == PerClass(1)
  IN [fitted |-> TRUE,
      classes_ |-> classes,
      class_count_ |-> [k \in 1..Len(classes) |-> per[k].class_count_],
      feature_count_ |-> [k \in 1..Len(classes) |-> per[k].feature_count_],
      class_log_prior_ |-> [k \in 1..Len(classes) |-> per[k].class_log_prior_],
      feature_log_prob_ |->
        [k \in 1..Len(classes) |-> per[k].feature_log_prob_]]

\* x / 1000 rounded to nearest
Unscale(x) ==
  IF x >= 0 THEN (x + 500) \div 1000 ELSE 0 - ((500 - x) \div 1000)

\* _joint_log_likelihood of one row for class k
JointLogLikelihood(m, x, k) ==
  LET last == Cardinality(DOMAIN x) - 1
  IN m.class_log_prior_[k]
       + Unscale(SumFn([j \in 0..last |-> x[j] * m.feature_log_prob_[k][j]],
                       0, last))

\* np.argmax: the first class whose joint log likelihood is the largest
ArgMax(m, x) ==
  LET RECURSIVE Jll(_)
      Jll(k) == IF k > Len(m.classes_) THEN <<>>
                ELSE <<JointLogLikelihood(m, x, k)>> \o Jll(k + 1)
      jll == Jll(1)
  IN CHOOSE k \in 1..Len(jll) :
       /\ \A l \in 1..Len(jll) : jll[l] <= jll[k]
       /\ \A l \in 1..(k - 1) : jll[l] < jll[k]

\* model.predict(X) of a fitted model
Predict(m, rows) == [i \in 1..Len(rows) |-> m.classes_[ArgMax(m, rows[i])]]

-----------------------------------------------------------------------------
(* check_is_fitted: what transform and predict test before they run *)

\* variant: transform does not test the vectorizer
VectorizerFittedUnchecked(v) == TRUE

\* vectorizer.transform: the vectorizer has a vocabulary_
VectorizerFitted(v) == v.fitted

\* model.predict: the model has its fitted attributes
ModelFitted(m) == m.fitted

-----------------------------------------------------------------------------
(* The kernel: one action per code cell *)

EmptySeries == [index |-> <<>>, values |-> <<>>]

\* a pandas Series over the default RangeIndex
Series(vals) == [index |-> [i \in 1..Len(vals) |-> i - 1], values |-> vals]

\* pd.DataFrame(data)
DataFrame(d) == [Text |-> Series(d.Text), Sentiment |-> Series(d.Sentiment)]

\* cell 1: the names the imports bind
Imported == {"pd", "TfidfVectorizer", "train_test_split", "MultinomialNB"}

Init ==
  /\ lit \in [data : Datasets, test_size : TestSizes,
              random_state : RandomStates]
  /\ ns = {}
  /\ data = [Text |-> <<>>, Sentiment |-> <<>>]
  /\ df = [Text |-> EmptySeries, Sentiment |-> EmptySeries]
  /\ vectorizer = NewVectorizer
  /\ X = <<>>
  /\ y = EmptySeries
  /\ X_train = <<>>
  /\ X_test = <<>>
  /\ y_train = EmptySeries
  /\ y_test = EmptySeries
  /\ model = NewModel
  /\ y_pred = <<>>
  /\ new_texts = <<>>
  /\ new_X = <<>>
  /\ y_new_pred = <<>>
  /\ stdout = <<>>
  /\ error = "none"
  /\ split_log = <<>>

loadVars == <<data, df>>
fitVars == <<vectorizer, X, y>>
splitVars == <<X_train, X_test, y_train, y_test, split_log>>
newVars == <<new_texts, new_X, y_new_pred>>

\* cell 1: the imports
RunImports ==
  /\ ns' = ns \cup Imported
  /\ error' = "ok"
  /\ UNCHANGED <<lit, loadVars, fitVars, splitVars, model, y_pred, newVars,
                 stdout>>

\* cell 2: data = {...}
RunLoadData ==
  /\ data' = lit.data
  /\ ns' = ns \cup {"data"}
  /\ error' = "ok"
  /\ UNCHANGED <<lit, df, fitVars, splitVars, model, y_pred, newVars, stdout>>

\* cell 3: df = pd.DataFrame(data)
RunDataFrame ==
  /\ IF ~({"pd", "data"} \subseteq ns)
       THEN error' = "NameError" /\ UNCHANGED <<ns, df>>
     ELSE IF Len(data.Text) # Len(data.Sentiment)
       THEN error' = "ValueError" /\ UNCHANGED <<ns, df>>
     ELSE /\ df' = DataFrame(data)
          /\ ns' = ns \cup {"df"}
          /\ error' = "ok"
  /\ UNCHANGED <<lit, data, fitVars, splitVars, model, y_pred, newVars,
                 stdout>>

\* cell 4: df (displayed)
RunShow ==
  /\ error' = IF "df" \in ns THEN "ok" ELSE "NameError"
  /\ UNCHANGED <<lit, ns, loadVars, fitVars, splitVars, model, y_pred,
                 newVars, stdout>>

\* cell 5: vectorizer = TfidfVectorizer(stop_words='english');
\*         X = vectorizer.fit_transform(df['Text']); y = df['Sentiment']
RunVectorize ==
  /\ IF "TfidfVectorizer" \notin ns
       THEN error' = "NameError" /\ UNCHANGED <<ns, fitVars>>
     ELSE IF "df" \notin ns
       THEN /\ vectorizer' = NewVectorizer
            /\ ns' = ns \cup {"vectorizer"}
            /\ error' = "NameError"
            /\ UNCHANGED <<X, y>>
     ELSE IF Vocabulary(df.Text.values) = <<>>
       THEN /\ vectorizer' = NewVectorizer
            /\ ns' = ns \cup {"vectorizer"}
            /\ error' = "ValueError"
            /\ UNCHANGED <<X, y>>
     ELSE /\ vectorizer' = Fit(df.Text.values)
          /\ X' = Transform(vectorizer', df.Text.values)
          /\ y' = df.Sentiment
          /\ ns' = ns \cup {"vectorizer", "X", "y"}
          /\ error' = "ok"
  /\ UNCHANGED <<lit, loadVars, splitVars, model, y_pred, newVars, stdout>>

\* the history of split results: the first entry is kept, the second is the
\* latest; an entry holds the result and whether a model was fitted by then
Logged(log, entry) ==
  IF Len(log) < 2 THEN Append(log, entry) ELSE [log EXCEPT ![2] = entry]

\* cell 6: X_train, X_test, y_train, y_test = train_test_split(X, y, ...)
RunSplit ==
  /\ IF ~({"train_test_split", "X", "y"} \subseteq ns)
       THEN error' = "NameError" /\ UNCHANGED <<ns, splitVars>>
     ELSE IF ~SplitAccepted(Len(X), lit.test_size)
       THEN error' = "ValueError" /\ UNCHANGED <<ns, splitVars>>
     ELSE LET idx == SplitIndices(Len(X), lit.test_size, lit.random_state)
          IN /\ X_train' = TakeRows(X, idx.train)
             /\ X_test' = TakeRows(X, idx.test)
             /\ y_train' = TakeSeries(y, idx.train)
             /\ y_test' = TakeSeries(y, idx.test)
             /\ split_log' = Logged(split_log, [result |-> idx,
                                                trained |-> model.fitted])
             /\ ns' = ns \cup {"X_train", "X_test", "y_train", "y_test"}
             /\ error' = "ok"
  /\ UNCHANGED <<lit, loadVars, fitVars, model, y_pred, newVars, stdout>>

\* cell 7: model = MultinomialNB(); model.fit(X_train, y_train)
RunTrain ==
  /\ IF "MultinomialNB" \notin ns
       THEN error' = "NameError" /\ UNCHANGED <<ns, model>>
     ELSE IF ~({"X_train", "y_train"} \subseteq ns)
       THEN /\ model' = NewModel
            /\ ns' = ns \cup {"model"}
            /\ error' = "NameError"
     ELSE /\ model' = FitModel(X_train, y_train)
          /\ ns' = ns \cup {"model"}
          /\ error' = "ok"
  /\ UNCHANGED <<lit, loadVars, fitVars, splitVars, y_pred, newVars, stdout>>

\* cell 8: y_pred = model.predict(X_test)
RunPredictTest ==
  /\ IF ~({"model", "X_test"} \subseteq ns)
       THEN error' = "NameError" /\ UNCHANGED <<ns, y_pred>>
     ELSE IF ~ModelFitted(model)
       THEN error' = "NotFittedError" /\ UNCHANGED <<ns, y_pred>>
     ELSE /\ y_pred' = Predict(model, X_test)
          /\ ns' = ns \cup {"y_pred"}
          /\ error' = "ok"
  /\ UNCHANGED <<lit, loadVars, fitVars, splitVars, model, newVars, stdout>>

\* variant of cell 9: fit_transform in place of transform; predict then
\* refuses the rows, whose columns are not the model's
RunPredictNewFitTransform(texts) ==
  /\ new_texts' = texts
  /\ IF "vectorizer" \notin ns
       THEN /\ error' = "NameError"
            /\ ns' = ns \cup {"new_texts"}
            /\ UNCHANGED <<vectorizer, new_X>>
     ELSE /\ vectorizer' = [fitted |-> TRUE,
                            vocabulary_ |-> Vocabulary(texts),
                            idf_ |-> Idf(texts, Vocabulary(texts))]
          /\ new_X' = Transform(vectorizer', texts)
          /\ ns' = ns \cup {"new_texts", "new_X"}
          /\ error' = "ValueError"
  /\ UNCHANGED <<lit, loadVars, X, y, splitVars, model, y_pred, y_new_pred,
                 stdout>>

\* cell 9: new_texts = [...]; new_X = vectorizer.transform(new_texts);
\*         y_new_pred = model.predict(new_X)
RunPredictNew(texts) ==
  /\ new_texts' = texts
  /\ IF "vectorizer" \notin ns
       THEN /\ error' = "NameError"
            /\ ns' = ns \cup {"new_texts"}
            /\ UNCHANGED <<new_X, y_new_pred>>
     ELSE IF ~VectorizerFitted(vectorizer)
       THEN /\ error' = "NotFittedError"
            /\ ns' = ns \cup {"new_texts"}
            /\ UNCHANGED <<new_X, y_new_pred>>
     ELSE /\ new_X' = Transform(vectorizer, texts)
          /\ IF "model" \notin ns
               THEN /\ error' = "NameError"
                    /\ ns' = ns \cup {"new_texts", "new_X"}
                    /\ UNCHANGED y_new_pred
             ELSE IF ~ModelFitted(model)
               THEN /\ error' = "NotFittedError"
                    /\ ns' = ns \cup {"new_texts", "new_X"}
                    /\ UNCHANGED y_new_pred
             ELSE /\ y_new_pred' = Predict(model, new_X')
                  /\ ns' = ns \cup {"new_texts", "new_X", "y_new_pred"}
                  /\ error' = "ok"
  /\ UNCHANGED <<lit, loadVars, fitVars, splitVars, model, y_pred, stdout>>

\* variant: the two labels exchanged
sentiment_label_swapped(sentiment) ==
  IF sentiment = 1 THEN "Negative" ELSE "Positive"

\* cell 10, line 139: the label printed for one prediction
sentiment_label(sentiment) == IF sentiment = 1 THEN "Positive" ELSE "Negative"

Min(a, b) == IF a <= b THEN a ELSE b

\* cell 10: for text, sentiment in zip(new_texts, y_new_pred): print(...)
RunDisplay ==
  /\ IF ~({"new_texts", "y_new_pred"} \subseteq ns)
       THEN error' = "NameError" /\ UNCHANGED stdout
     ELSE /\ stdout' = [i \in 1..Min(Len(new_texts), Len(y_new_pred)) |->
                          sentiment_label(y_new_pred[i])]
          /\ error' = "ok"
  /\ UNCHANGED <<lit, ns, loadVars, fitVars, splitVars, model, y_pred,
                 newVars>>

Next ==
  \/ RunImports
  \/ RunLoadData
  \/ RunDataFrame
  \/ RunShow
  \/ RunVectorize
  \/ RunSplit
  \/ RunTrain
  \/ RunPredictTest
  \/ \E texts \in NewTextsPool : RunPredictNew(texts)
  \/ RunDisplay

Spec == Init /\ [][Next]_vars

-----------------------------------------------------------------------------
(* Properties *)

IndexSet(ser) == {ser.index[i] : i \in 1..Len(ser.index)}

\* number of training documents labelled c
CountLabel(c) ==
  Cardinality({i \in 1..Len(y_train.values) : y_train.values[i] = c})

ZeroRow(x) == \A j \in DOMAIN x : x[j] = 0

\* the pipeline stage: 0 Unfitted, 1 Fitted, 2 Trained, 3 Inference
StageRank ==
  IF ~vectorizer.fitted THEN 0
  ELSE IF ~model.fitted THEN 1
  ELSE IF {"y_pred", "y_new_pred"} \cap ns = {} THEN 2
  ELSE 3

IsNotebookRun ==
  /\ lit.data = [Text |-> Text, Sentiment |-> Sentiment]
  /\ lit.test_size = TestSize
  /\ lit.random_state = RandomState

\* the permutation a split of the bound X draws
SplitPermutation == permutation(Len(X), check_random_state(lit.random_state))

\* round(num / den) as Python rounds, halves to the even neighbour
Round(num, den) ==
  LET q == num \div den
      r == num % den
  IN IF 2 * r < den THEN q
     ELSE IF 2 * r > den THEN q + 1
     ELSE IF q % 2 = 0 THEN q ELSE q + 1

\* the least m with m >= num / den
Ceil(num, den) == CHOOSE m \in 0..num : m * den >= num /\ (m - 1) * den < num

\* C1: whenever split has returned, the train and the test index sets have no
\* index in common, their union is exactly 0..n-1, no index occurs twice, and
\* the rows and labels handed back are as many as the indices.
C1_SplitPartition ==
  "y_train" \in ns =>
    /\ IndexSet(y_train) \cap IndexSet(y_test) = {}
    /\ IndexSet(y_train) \cup IndexSet(y_test) = 0..(Len(X) - 1)
    /\ Cardinality(IndexSet(y_train)) = Len(y_train.index)
    /\ Cardinality(IndexSet(y_test)) = Len(y_test.index)
    /\ Len(X_train) = Len(y_train.index)
    /\ Len(X_test) = Len(y_test.index)

C1_Witness ==
  /\ "y_train" \in ns
  /\ Len(X) = 3
  /\ lit.test_size = 5
  /\ Len(y_test.index) = 2

C3_StageForward ==
  [][/\ StageRank' >= StageRank
     /\ ("X" \in ns' \/ "new_X" \in ns') => vectorizer'.fitted
     /\ ("y_pred" \in ns' \/ "y_new_pred" \in ns') => model'.fitted
     /\ (StageRank = 3 /\ \E texts \in NewTextsPool : RunPredictNew(texts))
          => (error' = "ok" /\ StageRank' = 3 /\ "y_new_pred" \in ns')]_vars

C3_Witness ==
  /\ StageRank = 3
  /\ {"y_pred", "y_new_pred"} \subseteq ns
  /\ Len(stdout) = Len(NewTexts)
  /\ new_texts # NewTexts

\* C4: once the vectorizer is fitted no step changes its vocabulary_ or idf_,
\* and once the model is fitted no step changes its priors or its likelihood
\* table.
C4_FittedStateFrozen ==
  [][/\ vectorizer.fitted => vectorizer' = vectorizer
     /\ model.fitted => model' = model]_vars

C4_Witness ==
  /\ vectorizer.fitted
  /\ model.fitted
  /\ {"y_pred", "y_new_pred"} \subseteq ns
  /\ \E i \in 1..Len(new_texts) : \E k \in 1..Len(Tokens(new_texts[i])) :
       Tokens(new_texts[i])[k] \notin DOMAIN vectorizer.vocabulary_

\* C5: a model bound after a training on labels of a single class is not
\* fitted (the training failed).
C5_SingleClassRejected ==
  ("model" \in ns /\ "y_train" \in ns /\ (CountLabel(0) = 0 \/ CountLabel(1) = 0))
    => ~model.fitted

\* C6: cell 9 run with a vectorizer that is not fitted, or with a fitted
\* vectorizer and a model that is not fitted, and cell 8 run with a model that
\* is not fitted, end in NotFittedError, bind no vector and no label, and
\* leave the stage and every object of the pipeline as they were.
C6_NotFittedRaises ==
  [][/\ ("vectorizer" \in ns /\ ~vectorizer.fitted
           /\ \E texts \in NewTextsPool : RunPredictNew(texts))
          => /\ error' = "NotFittedError"
             /\ ns' \ {"new_texts"} = ns \ {"new_texts"}
             /\ StageRank' = StageRank
             /\ UNCHANGED <<loadVars, fitVars, splitVars, model, y_pred,
                            new_X, y_new_pred, stdout>>
     /\ (vectorizer.fitted /\ "model" \in ns /\ ~model.fitted
           /\ \E texts \in NewTextsPool : RunPredictNew(texts))
          => /\ error' = "NotFittedError"
             /\ ns' \ {"new_texts", "new_X"} = ns \ {"new_texts", "new_X"}
             /\ StageRank' = StageRank
             /\ UNCHANGED <<loadVars, fitVars, splitVars, model, y_pred,
                            y_new_pred, stdout>>
     /\ ({"model", "X_test"} \subseteq ns /\ ~model.fitted /\ RunPredictTest)
          => /\ error' = "NotFittedError"
             /\ UNCHANGED <<ns, loadVars, fitVars, splitVars, model, y_pred,
                            newVars, stdout>>]_vars

C6_Witness ==
  /\ error = "NotFittedError"
  /\ "vectorizer" \in ns
  /\ ~vectorizer.fitted
  /\ "new_texts" \in ns
  /\ "new_X" \notin ns

\* C7: every all-zero row is predicted as the class that has more training
\* documents.
C7_ZeroVectorMajority ==
  /\ "y_new_pred" \in ns =>
       \A i \in 1..Len(new_X) : ZeroRow(new_X[i]) =>
         /\ CountLabel(1) > CountLabel(0) => y_new_pred[i] = 1
         /\ CountLabel(0) > CountLabel(1) => y_new_pred[i] = 0
  /\ "y_pred" \in ns =>
       \A i \in 1..Len(X_test) : ZeroRow(X_test[i]) =>
         /\ CountLabel(1) > CountLabel(0) => y_pred[i] = 1
         /\ CountLabel(0) > CountLabel(1) => y_pred[i] = 0

C7_Witness ==
  /\ "y_new_pred" \in ns
  /\ CountLabel(1) > CountLabel(0)
  /\ CountLabel(0) > 0
  /\ \E i \in 1..Len(new_X) : ZeroRow(new_X[i]) /\ y_new_pred[i] = 1

\* C8 as amended: the test indices are the first ceil(n * ratio) items of the
\* seeded permutation and the train indices the n - ceil(n * ratio) items
\* after them.
C8_TestFirstCeil ==
  "y_train" \in ns =>
    LET n == Len(X)
        n_test == Ceil(n * lit.test_size, 10)
    IN /\ y_test.index = SubSeq(SplitPermutation, 1, n_test)
       /\ y_train.index = SubSeq(SplitPermutation, n_test + 1, n)
       /\ Len(y_train.index) = n - n_test

C8_Witness ==
  /\ "y_train" \in ns
  /\ Len(X) = 3
  /\ lit.test_size = 5
  /\ Len(y_train.index) = 1
  /\ Round(Len(X) * (10 - lit.test_size), 10) = 2

\* C8 as stated: the train indices are the first round(n * (1 - ratio)) items
\* of the seeded permutation and the test indices the items after them.
C8_TrainFirstRound ==
  "y_train" \in ns =>
    LET n == Len(X)
        n_train == Round(n * (10 - lit.test_size), 10)
    IN /\ y_train.index = SubSeq(SplitPermutation, 1, n_train)
       /\ y_test.index = SubSeq(SplitPermutation, n_train + 1, n)

\* C9: in the notebook's own run (its data, test_size 0.3, random_state 42)
\* the first new text, "I am so happy with this purchase!", is predicted 1
\* and printed as Positive.
C9_ScenarioA ==
  (IsNotebookRun /\ "y_new_pred" \in ns /\ new_texts = NewTexts) =>
    /\ y_new_pred[1] = 1
    /\ Len(stdout) = Len(NewTexts) => stdout[1] = "Positive"

C9_Witness ==
  /\ IsNotebookRun
  /\ "y_new_pred" \in ns
  /\ new_texts = NewTexts
  /\ Len(stdout) = Len(NewTexts)
  /\ error = "ok"
  /\ y_train.index = <<0, 7, 2, 9, 4, 3, 6>>

\* C10 as amended: a split that returned has a non-empty train set and a
\* non-empty test set; a split is refused with ValueError exactly when
\* n - ceil(n * ratio) = 0, and then binds nothing.
C10_NonEmptyOrRefused ==
  /\ "y_train" \in ns =>
       /\ Len(y_train.index) >= 1 /\ Len(y_test.index) >= 1
       /\ Len(X_train) >= 1 /\ Len(X_test) >= 1
       /\ Len(X) - Ceil(Len(X) * lit.test_size, 10) > 0
  /\ ("X" \in ns /\ error = "ValueError") =>
       /\ Len(X) - Ceil(Len(X) * lit.test_size, 10) = 0
       /\ {"X_train", "X_test", "y_train", "y_test"} \cap ns = {}

C10_Witness ==
  /\ "y_train" \in ns
  /\ Len(X) = 2
  /\ Len(y_train.index) = 1
  /\ Len(y_test.index) = 1

\* C10 as stated: with n >= 2 and a ratio strictly between 0 and 1 split is
\* never refused.
C10_AlwaysAccepted ==
  ("X" \in ns /\ Len(X) >= 2 /\ lit.test_size > 0 /\ lit.test_size < 10)
    => error # "ValueError"

====
